---- MODULE Spec2Model ----
(***************************************************************************)
(* A model of bluesky_adaptive/agents/simple.py: the agent mixins          *)
(* SequentialAgentBase, SklearnEstimatorAgentBase, DecompositionAgentBase  *)
(* and ClusterAgentBase, driven by an external caller through tell, ask,   *)
(* report and update_model_params.                                         *)
(*                                                                         *)
(* One agent instance is modelled; its class is chosen at construction.    *)
(* A Python float is [tag |-> "float", data |-> <<v>>], a Python list of   *)
(* floats is [tag |-> "list", data |-> <<v1, ..., vn>>], and a numpy array *)
(* is [tag |-> "0d" or "1d", data |-> ...].  Every document value is a     *)
(* Python list, modelled as a sequence.  The estimator is an external      *)
(* object: only its parameters and the array of its last fit are kept.     *)
(* The attribute tell_cache of the external Agent base class is not        *)
(* modelled.                                                               *)
(***************************************************************************)
EXTENDS Integers, Sequences, FiniteSets, TLC

VARIABLES
    cls,                \* the class of the agent instance
    sequence,           \* SequentialAgentBase.sequence
    relative_bounds,    \* SequentialAgentBase.relative_bounds (None or <<low, high>>)
    ask_count,          \* SequentialAgentBase.ask_count
    gen,                \* SequentialAgentBase._position_generator: [pos, done]
    independent_cache,  \* the list independent_cache
    observable_cache,   \* the list observable_cache
    model,              \* SklearnEstimatorAgentBase.model
    ret,                \* what the last call returned or raised
    tells,              \* history: the <<x, y>> of every tell call, in call order
    yielded,            \* history: every point the position generator has yielded
    handed,             \* history: every point an ask call has returned to its caller
    failedOnce          \* history: some ask call has raised StopIteration

vars == <<cls, sequence, relative_bounds, ask_count, gen, independent_cache,
          observable_cache, model, ret, tells, yielded, handed, failedOnce>>

\* ------------------------------------------------------------------ bounds

MaxSeqLen == 3
MaxBatch == 2
MaxAskCount == 5
MaxSeqTells == 1
MaxSkTells == 3

\* ------------------------------------------------------------------ values

None == <<>>

Float(v) == [tag |-> "float", data |-> <<v>>]

List(s) == [tag |-> "list", data |-> s]

Points == {Float(0), Float(1), Float(2), List(<<0, 1>>)}

BoundsChoices == {None, <<0, 2>>, <<2, 0>>}

TellInputs == {<<1, 1>>, <<1, 2>>, <<2, 1>>}

ParamChoices == {1, 2}

SeqsUpTo(S, n) == UNION {[1..k -> S] : k \in 0..n}

NoModel == [params |-> 0, fitted |-> FALSE, X |-> <<>>]

NoDoc == [independent_variable |-> <<>>, observable |-> <<>>, cache_len |-> <<>>,
          proposal |-> <<>>, ask_count |-> <<>>, percent_completion |-> <<>>,
          arr |-> <<>>]

\* ret: the call (its name and arguments) and either the document it returned or
\* the exception it raised
Returned(op, args, doc) == [op |-> op, args |-> args, err |-> "none", doc |-> doc]

Raised(op, args, err) == [op |-> op, args |-> args, err |-> err, doc |-> NoDoc]

\* ------------------------------------------------------------------ numpy

NpArray(point) ==
    [tag |-> IF point.tag = "float" THEN "0d" ELSE "1d", data |-> point.data]

LessEqual(arr, b) == [tag |-> arr.tag, data |-> [i \in DOMAIN arr.data |-> arr.data[i] <= b]]

GreaterEqual(arr, b) == [tag |-> arr.tag, data |-> [i \in DOMAIN arr.data |-> arr.data[i] >= b]]

\* bool(arr) raises ValueError for an array of more than one element
Ambiguous(arr) == Len(arr.data) > 1

Truth(arr) == Len(arr.data) = 1 /\ arr.data[1]

All(arr) == \A i \in DOMAIN arr.data : arr.data[i]

\* ------------------------------------------------- SequentialAgentBase

\* GenStep with the bounds test as a conjunction: a point is kept when it lies
\* between low and high.
GenStepAnd(point) ==
    IF relative_bounds = None
    THEN [out |-> "yield", val |-> point]
    ELSE LET arr == NpArray(point)
             le == LessEqual(arr, relative_bounds[2])
             ge == GreaterEqual(arr, relative_bounds[1])
         IN  IF Ambiguous(le)
             THEN [out |-> "ValueError", val |-> point]
             ELSE IF Truth(le) /\ Truth(ge)
                  THEN [out |-> "yield", val |-> point]
                  ELSE [out |-> "skip", val |-> point]

\* One iteration of the generator's loop on `point`: yield, skip or raise.
GenStep(point) ==
    IF relative_bounds = None
    THEN [out |-> "yield", val |-> point]
    ELSE LET arr == NpArray(point)
             le == LessEqual(arr, relative_bounds[2])
             ge == GreaterEqual(arr, relative_bounds[1])
         IN  IF Ambiguous(le)
             THEN [out |-> "ValueError", val |-> point]
             ELSE LET condition == IF Truth(le) THEN le ELSE ge
                  IN  IF ~Ambiguous(condition)
                      THEN IF Truth(condition)
                           THEN [out |-> "yield", val |-> point]
                           ELSE [out |-> "skip", val |-> point]
                      ELSE IF All(condition)
                           THEN [out |-> "yield", val |-> arr]
                           ELSE [out |-> "skip", val |-> point]

\* GenNext with a generator that is created anew once it is exhausted.
GenNextRestart(g) ==
    IF g.pos <= Len(sequence) /\ ~g.done /\ GenStep(sequence[g.pos]).out = "yield"
    THEN [out |-> "yield", val |-> sequence[g.pos],
          gen |-> [pos |-> g.pos + 1, done |-> FALSE]]
    ELSE IF sequence # <<>> /\ GenStep(sequence[1]).out = "yield"
         THEN [out |-> "yield", val |-> sequence[1], gen |-> [pos |-> 2, done |-> FALSE]]
         ELSE [out |-> "StopIteration", val |-> Float(0),
               gen |-> [pos |-> g.pos, done |-> TRUE]]

\* next(self._position_generator) from generator state g.
RECURSIVE GenNext(_)
GenNext(g) ==
    IF g.done \/ g.pos > Len(sequence)
    THEN [out |-> "StopIteration", val |-> Float(0), gen |-> [pos |-> g.pos, done |-> TRUE]]
    ELSE LET s == GenStep(sequence[g.pos])
         IN  CASE s.out = "yield" ->
                    [out |-> "yield", val |-> s.val, gen |-> [pos |-> g.pos + 1, done |-> FALSE]]
               [] s.out = "skip" -> GenNext([pos |-> g.pos + 1, done |-> FALSE])
               [] OTHER ->
                    [out |-> s.out, val |-> s.val, gen |-> [pos |-> g.pos + 1, done |-> TRUE]]

\* AskLoop with each drawn point put in front of the proposals drawn before it.
RECURSIVE AskLoopReversed(_, _, _, _)
AskLoopReversed(n, count, g, proposal) ==
    IF n = 0
    THEN [err |-> "none", ask_count |-> count, gen |-> g, proposal |-> proposal]
    ELSE LET r == GenNext(g)
         IN  IF r.out = "yield"
             THEN AskLoopReversed(n - 1, count + 1, r.gen, <<r.val>> \o proposal)
             ELSE [err |-> r.out, ask_count |-> count + 1, gen |-> r.gen,
                   proposal |-> proposal]

\* The loop of ask with n iterations left: the counter is incremented, then a
\* point is drawn; an exception leaves the loop with the points drawn so far.
RECURSIVE AskLoop(_, _, _, _)
AskLoop(n, count, g, proposal) ==
    IF n = 0
    THEN [err |-> "none", ask_count |-> count, gen |-> g, proposal |-> proposal]
    ELSE LET r == GenNext(g)
         IN  IF r.out = "yield"
             THEN AskLoop(n - 1, count + 1, r.gen, Append(proposal, r.val))
             ELSE [err |-> r.out, ask_count |-> count + 1, gen |-> r.gen,
                   proposal |-> proposal]

\* SeqTell with each value appended to the other cache.
SeqTellSwapped(x, y) ==
    /\ cls = "SequentialAgentBase"
    /\ Len(independent_cache) < MaxSeqTells
    /\ independent_cache' = Append(independent_cache, y)
    /\ observable_cache' = Append(observable_cache, x)
    /\ ret' = Returned("tell", <<x, y>>, [NoDoc EXCEPT !.independent_variable = <<x>>,
                                             !.observable = <<y>>,
                                             !.cache_len = <<Len(independent_cache')>>])
    /\ tells' = Append(tells, <<x, y>>)
    /\ UNCHANGED <<cls, sequence, relative_bounds, ask_count, gen, model, yielded,
                   handed, failedOnce>>

SeqTell(x, y) ==
    /\ cls = "SequentialAgentBase"
    /\ Len(independent_cache) < MaxSeqTells
    /\ independent_cache' = Append(independent_cache, x)
    /\ observable_cache' = Append(observable_cache, y)
    /\ ret' = Returned("tell", <<x, y>>, [NoDoc EXCEPT !.independent_variable = <<x>>,
                                             !.observable = <<y>>,
                                             !.cache_len = <<Len(independent_cache')>>])
    /\ tells' = Append(tells, <<x, y>>)
    /\ UNCHANGED <<cls, sequence, relative_bounds, ask_count, gen, model, yielded,
                   handed, failedOnce>>

SeqAsk(batch_size) ==
    /\ cls = "SequentialAgentBase"
    /\ ask_count + batch_size <= MaxAskCount
    /\ LET r == AskLoop(batch_size, ask_count, gen, <<>>)
       IN  /\ ask_count' = r.ask_count
           /\ gen' = r.gen
           /\ yielded' = yielded \o r.proposal
           /\ IF r.err = "none"
              THEN /\ ret' = Returned("ask", <<batch_size>>, [NoDoc EXCEPT !.proposal = r.proposal,
                                                           !.ask_count = <<r.ask_count>>])
                   /\ handed' = handed \o r.proposal
              ELSE /\ ret' = Raised("ask", <<batch_size>>, r.err)
                   /\ handed' = handed
           /\ failedOnce' = (failedOnce \/ r.err = "StopIteration")
    /\ UNCHANGED <<cls, sequence, relative_bounds, independent_cache, observable_cache,
                   model, tells>>

\* Divide as floor division (//).
DivideFloor(a, b) == [num |-> a \div b, den |-> 1]

\* ask_count / len(sequence): true division, kept as a fraction
Divide(a, b) == [num |-> a, den |-> b]

SeqReport ==
    /\ cls = "SequentialAgentBase"
    /\ ret' = IF Len(sequence) = 0
              THEN Raised("report", <<>>, "ZeroDivisionError")
              ELSE Returned("report", <<>>,
                            [NoDoc EXCEPT !.percent_completion =
                                              <<Divide(ask_count, Len(sequence))>>])
    /\ UNCHANGED <<cls, sequence, relative_bounds, ask_count, gen, independent_cache,
                   observable_cache, model, tells, yielded, handed, failedOnce>>

\* ------------------------------------------- SklearnEstimatorAgentBase

SklearnClasses == {"SklearnEstimatorAgentBase", "DecompositionAgentBase", "ClusterAgentBase"}

Classes == {"SequentialAgentBase"} \cup SklearnClasses

SkTell(x, y) ==
    /\ cls \in SklearnClasses
    /\ Len(independent_cache) < MaxSkTells
    /\ independent_cache' = Append(independent_cache, x)
    /\ observable_cache' = Append(observable_cache, y)
    /\ ret' = Returned("tell", <<x, y>>, [NoDoc EXCEPT !.independent_variable = <<x>>,
                                             !.observable = <<y>>,
                                             !.cache_len = <<Len(independent_cache')>>])
    /\ tells' = Append(tells, <<x, y>>)
    /\ UNCHANGED <<cls, sequence, relative_bounds, ask_count, gen, model, yielded,
                   handed, failedOnce>>

\* SkAsk returning an empty list of proposals.
SkAskEmpty(batch_size) ==
    /\ cls \in SklearnClasses
    /\ ret' = Returned("ask", <<batch_size>>, NoDoc)
    /\ UNCHANGED <<cls, sequence, relative_bounds, ask_count, gen, independent_cache,
                   observable_cache, model, tells, yielded, handed, failedOnce>>

SkAsk(batch_size) ==
    /\ cls \in SklearnClasses
    /\ ret' = Raised("ask", <<batch_size>>, "NotImplementedError")
    /\ UNCHANGED <<cls, sequence, relative_bounds, ask_count, gen, independent_cache,
                   observable_cache, model, tells, yielded, handed, failedOnce>>

UpdateModelParams(params) ==
    /\ cls \in SklearnClasses
    /\ model' = [model EXCEPT !.params = params]
    /\ ret' = Returned("update_model_params", <<params>>, NoDoc)
    /\ UNCHANGED <<cls, sequence, relative_bounds, ask_count, gen, independent_cache,
                   observable_cache, tells, yielded, handed, failedOnce>>

\* ------------------------------ DecompositionAgentBase, ClusterAgentBase

Min(a, b) == IF a <= b THEN a ELSE b

Zip(a, b) == [i \in 1..Min(Len(a), Len(b)) |-> <<a[i], b[i]>>]

\* Python's order on 2-tuples: the first items decide unless they are equal
TupleLess(p, q) == p[1] < q[1] \/ (p[1] = q[1] /\ p[2] < q[2])

\* e goes behind every item that is not greater than it (the sort is stable)
RECURSIVE InsertSorted(_, _)
InsertSorted(s, e) ==
    IF s = <<>> THEN <<e>>
    ELSE IF TupleLess(e, s[Len(s)])
         THEN Append(InsertSorted(SubSeq(s, 1, Len(s) - 1), e), s[Len(s)])
         ELSE Append(s, e)

RECURSIVE Sorted(_)
Sorted(s) ==
    IF s = <<>> THEN <<>>
    ELSE InsertSorted(Sorted(SubSeq(s, 1, Len(s) - 1)), s[Len(s)])

\* np.array([x for _, x in sorted(zip(independent_cache, observable_cache))])
ReportArray ==
    LET pairs == Sorted(Zip(independent_cache, observable_cache))
    IN  [i \in 1..Len(pairs) |-> pairs[i][2]]

\* The estimator is handed the array; sklearn rejects an array of no samples.
DecompositionReport ==
    /\ cls = "DecompositionAgentBase"
    /\ LET arr == ReportArray
       IN  IF arr = <<>>
           THEN /\ ret' = Raised("report", <<>>, "ValueError")
                /\ model' = model
           ELSE /\ model' = [model EXCEPT !.fitted = TRUE, !.X = arr]
                /\ ret' = Returned("report", <<>>,
                                   [NoDoc EXCEPT !.arr = arr,
                                                 !.cache_len = <<Len(independent_cache)>>])
    /\ UNCHANGED <<cls, sequence, relative_bounds, ask_count, gen, independent_cache,
                   observable_cache, tells, yielded, handed, failedOnce>>

ClusterReport ==
    /\ cls = "ClusterAgentBase"
    /\ LET arr == ReportArray
       IN  IF arr = <<>>
           THEN /\ ret' = Raised("report", <<>>, "ValueError")
                /\ model' = model
           ELSE /\ model' = [model EXCEPT !.fitted = TRUE, !.X = arr]
                /\ ret' = Returned("report", <<>>,
                                   [NoDoc EXCEPT !.arr = arr,
                                                 !.cache_len = <<Len(independent_cache)>>])
    /\ UNCHANGED <<cls, sequence, relative_bounds, ask_count, gen, independent_cache,
                   observable_cache, tells, yielded, handed, failedOnce>>

\* ------------------------------------------------------- specification

Init ==
    /\ cls \in Classes
    /\ IF cls = "SequentialAgentBase"
       THEN /\ sequence \in SeqsUpTo(Points, MaxSeqLen)
            /\ relative_bounds \in BoundsChoices
            /\ model = NoModel
       ELSE /\ sequence = <<>>
            /\ relative_bounds = None
            /\ model = [params |-> 1, fitted |-> FALSE, X |-> <<>>]
    /\ ask_count = 0
    /\ gen = [pos |-> 1, done |-> FALSE]
    /\ independent_cache = <<>>
    /\ observable_cache = <<>>
    /\ ret = Returned("__init__", <<>>, NoDoc)
    /\ tells = <<>>
    /\ yielded = <<>>
    /\ handed = <<>>
    /\ failedOnce = FALSE

Next ==
    \/ \E t \in TellInputs : SeqTell(t[1], t[2])
    \/ \E k \in 0..MaxBatch : SeqAsk(k)
    \/ SeqReport
    \/ \E t \in TellInputs : SkTell(t[1], t[2])
    \/ \E k \in 0..MaxBatch : SkAsk(k)
    \/ \E p \in ParamChoices : UpdateModelParams(p)
    \/ DecompositionReport
    \/ ClusterReport

Spec == Init /\ [][Next]_vars

\* ------------------------------------------------------------ properties

IsSequential == cls = "SequentialAgentBase"

\* s is the first Len(s) items of t
IsPrefix(s, t) == Len(s) <= Len(t) /\ s = SubSeq(t, 1, Len(s))

\* C1: in both cache-keeping classes the two caches have the length of the
\* number of tell calls made, their i-th entries are the x and the y of the i-th
\* tell call, each step leaves the entries already cached in place, and the
\* cache_len a tell returns is the number of tell calls made up to it.
C1_CachesRecordTells ==
    /\ [](/\ Len(independent_cache) = Len(tells)
          /\ Len(observable_cache) = Len(tells)
          /\ \A i \in 1..Len(tells) : /\ independent_cache[i] = tells[i][1]
                                      /\ observable_cache[i] = tells[i][2]
          /\ ret.op = "tell" => ret.doc.cache_len = <<Len(tells)>>)
    /\ [][/\ IsPrefix(independent_cache, independent_cache')
          /\ IsPrefix(observable_cache, observable_cache')]_vars

C1_Witness ==
    /\ cls = "DecompositionAgentBase"
    /\ ret.op = "tell"
    /\ independent_cache = <<2, 1, 1>>
    /\ observable_cache = <<1, 2, 1>>
    /\ model.fitted

\* C2: without relative_bounds, an ask(k) made when at least k points of the
\* sequence are undrawn returns the next k points in sequence order and adds k to
\* ask_count, and the points handed out so far are always a prefix of the sequence.
C2_AskReturnsNextPoints ==
    /\ [](IsSequential /\ relative_bounds = None => IsPrefix(handed, sequence))
    /\ [][\A k \in 0..MaxBatch :
            (/\ IsSequential
             /\ relative_bounds = None
             /\ ret'.op = "ask"
             /\ ret'.args = <<k>>
             /\ Len(sequence) - Len(yielded) >= k)
            => /\ ret'.err = "none"
               /\ ret'.doc.proposal = SubSeq(sequence, Len(yielded) + 1, Len(yielded) + k)
               /\ ask_count' = ask_count + k
               /\ ret'.doc.ask_count = <<ask_count'>>]_vars

C2_Witness ==
    /\ IsSequential
    /\ relative_bounds = None
    /\ ret.op = "ask"
    /\ ret.err = "none"
    /\ Len(ret.doc.proposal) = 2
    /\ Len(handed) = 3
    /\ Len(tells) > 0

AllFloats == \A i \in 1..Len(sequence) : sequence[i].tag = "float"

KeptScalar(point) ==
    \/ point.data[1] <= relative_bounds[2]
    \/ point.data[1] >= relative_bounds[1]

KeptAll(point) ==
    \A i \in DOMAIN point.data :
        point.data[i] <= relative_bounds[2] \/ point.data[i] >= relative_bounds[1]

Data(points) == [i \in DOMAIN points |-> points[i].data]

\* C4: with relative_bounds, the points yielded are those of the points examined
\* whose every element e has e <= high or e >= low, and no ask raises anything
\* but exhaustion.
C4_ArrayPointsFiltered ==
    IsSequential /\ relative_bounds # None =>
        /\ ret.op = "ask" => ret.err \in {"none", "StopIteration"}
        /\ Data(yielded) = Data(SelectSeq(SubSeq(sequence, 1, gen.pos - 1), KeptAll))

\* C5: the cursor only moves forward; an ask that returns has drawn its whole
\* batch from the points at and after the cursor; an ask for more points than
\* are left to examine raises; and once an ask has raised StopIteration every
\* later ask with batch_size >= 1 raises it too and hands out nothing.
C5_ExhaustionIsTerminal ==
    /\ [](failedOnce => gen.done)
    /\ [][/\ gen'.pos >= gen.pos
          /\ gen.done => gen'.done
          /\ \A k \in 0..MaxBatch :
               (IsSequential /\ ret'.op = "ask" /\ ret'.args = <<k>>) =>
                   /\ ret'.err = "none" => Len(ret'.doc.proposal) = k
                   /\ ret'.err = "none" => gen'.pos - gen.pos >= k
                   /\ k > Len(sequence) - (gen.pos - 1) => ret'.err # "none"
                   /\ (k >= 1 /\ (failedOnce \/ gen.pos > Len(sequence))) =>
                          /\ ret'.err = "StopIteration"
                          /\ handed' = handed
                          /\ gen'.done]_vars

C5_Witness ==
    /\ IsSequential
    /\ Len(sequence) = 2
    /\ failedOnce
    /\ ret.op = "tell"
    /\ ask_count >= 4
    /\ handed = sequence

FractionEquals(f, a, b) == f.num * b = a * f.den /\ f.den # 0

\* C6: on a non-empty sequence report returns percent_completion as the
\* one-element list of ask_count / len(sequence), and changes neither
\* ask_count, the generator nor the caches.
C6_ReportPercentCompletion ==
    [][(IsSequential /\ ret'.op = "report" /\ Len(sequence) > 0) =>
          /\ ret'.err = "none"
          /\ Len(ret'.doc.percent_completion) = 1
          /\ FractionEquals(ret'.doc.percent_completion[1], ask_count, Len(sequence))
          /\ UNCHANGED <<ask_count, gen, independent_cache, observable_cache>>]_vars

C6_Witness ==
    /\ IsSequential
    /\ ret.op = "report"
    /\ ret.err = "none"
    /\ ask_count = 2
    /\ Len(sequence) = 3
    /\ Len(tells) = 1

\* C7: in the three estimator classes every ask raises NotImplementedError and
\* leaves the caches and the model as they were.
C7_PassiveAskNotImplemented ==
    [][(cls \in SklearnClasses /\ ret'.op = "ask") =>
          /\ ret'.err = "NotImplementedError"
          /\ ret'.doc = NoDoc
          /\ UNCHANGED <<independent_cache, observable_cache, model>>]_vars

C7_Witness ==
    /\ cls = "ClusterAgentBase"
    /\ ret.op = "ask"
    /\ ret.args = <<2>>
    /\ Len(independent_cache) = 2
    /\ model.fitted

\* e goes behind every pair whose x is not greater than its own x
RECURSIVE InsertByX(_, _)
InsertByX(s, e) ==
    IF s = <<>> THEN <<e>>
    ELSE IF e[1] < s[Len(s)][1]
         THEN Append(InsertByX(SubSeq(s, 1, Len(s) - 1), e), s[Len(s)])
         ELSE Append(s, e)

RECURSIVE StableSortByX(_)
StableSortByX(s) ==
    IF s = <<>> THEN <<>>
    ELSE InsertByX(StableSortByX(SubSeq(s, 1, Len(s) - 1)), s[Len(s)])

\* C8: the array a decomposition or cluster report hands to the model is the
\* y of the told pairs in the order of a stable sort on x alone.
C8_ReportSortsByXOnly ==
    (cls \in {"DecompositionAgentBase", "ClusterAgentBase"}
        /\ ret.op = "report" /\ ret.err = "none") =>
        LET pairs == StableSortByX(tells)
        IN  /\ ret.doc.arr = [i \in 1..Len(pairs) |-> pairs[i][2]]
            /\ model.X = ret.doc.arr

\* C9: ask_count is the number of points drawn from the position generator, and
\* so never exceeds the length of the sequence.
C9_AskCountIsPointsDrawn ==
    IsSequential => ask_count = Len(yielded) /\ ask_count <= Len(sequence)

\* C10: every point the position generator has yielded has been returned to the
\* caller of the ask that drew it.
C10_NoPointLost ==
    IsSequential => handed = yielded

====
